---------------------------- MODULE Spec2Model ----------------------------
(***************************************************************************)
(* Model of the Flow payment client of five-forks-on-user-created:         *)
(*   - FlowClient.sign          (src/src/services/flow/client.ts)          *)
(*   - FlowClient.makeRequest and the four operation methods               *)
(*   - getFlowConfig / getFlowClient (the process-wide singleton)          *)
(*   - the onUserCreated trigger handler (src/src/index.ts)                *)
(*                                                                         *)
(* JavaScript strings are TLA+ strings.  A JavaScript value of type        *)
(* string | number | undefined is a tagged record (Str, Num, Undefined).   *)
(* A JavaScript object literal is the sequence of its own enumerable       *)
(* entries in insertion order, each entry a record [k, v].                 *)
(***************************************************************************)
EXTENDS Integers, Sequences, FiniteSets, TLC

VARIABLES
    env,                 \* process.env: the three FLOW_* variables
    flowClientInstance,  \* module variable of services/flow/index.ts
    constructed,         \* number of FlowClient constructor runs so far
    tasks,               \* the asynchronous invocations in flight
    signParamsA,         \* signer harness: first parameter object
    signParamsB,         \* signer harness: second parameter object
    signedA,             \* signer harness: result of signing signParamsA
    signedB              \* signer harness: result of signing signParamsB

vars == <<env, flowClientInstance, constructed, tasks,
          signParamsA, signParamsB, signedA, signedB>>

procVars == <<env, flowClientInstance, constructed, tasks>>
signVars == <<signParamsA, signParamsB, signedA, signedB>>

-----------------------------------------------------------------------------
(* Bounds of the model *)

\* Number of invocations that may be in flight at once (process model).
MaxTasks == 2
\* Longest parameter value drawn for the signer harness.
MaxValLen == 1

-----------------------------------------------------------------------------
(* JavaScript values *)

Undefined == [t |-> "undefined", s |-> "", n |-> 0]
Str(str) == [t |-> "string", s |-> str, n |-> 0]
Num(num) == [t |-> "number", s |-> "", n |-> num]

\* ToBoolean: undefined, "" and 0 are falsy.
Truthy(v) ==
    CASE v.t = "undefined" -> FALSE
      [] v.t = "string" -> v.s # ""
      [] v.t = "number" -> v.n # 0

\* a || b
OrElse(a, b) == IF Truthy(a) THEN a ELSE b

\* Op(value), with value evaluated once before Op uses it.
Once(value, Op(_)) == CHOOSE result \in {Op(x) : x \in {value}} : TRUE

Digits == "0123456789"

\* Number::toString for a non-negative integer: decimal, no separators, no sign.
RECURSIVE NumberToString(_)
NumberToString(num) ==
    IF num < 10
    THEN SubSeq(Digits, num + 1, num + 1)
    ELSE NumberToString(num \div 10) \o SubSeq(Digits, (num % 10) + 1, (num % 10) + 1)

\* String(value), also the conversion a template literal `${value}` applies.
String(v) ==
    CASE v.t = "string" -> v.s
      [] v.t = "number" -> NumberToString(v.n)
      [] v.t = "undefined" -> "undefined"

-----------------------------------------------------------------------------
(* UTF-16 code units of the printable ASCII characters *)

AsciiLow == " !\"#$%&'()*+,-./0123456789:;<=>?@ABCDEFGHIJKLMNOPQRSTUVWXYZ[\\]^_"
AsciiHigh == "abcdefghijklmnopqrstuvwxyz{|}~"

AsciiChars ==
    {SubSeq(AsciiLow, i, i) : i \in 1..Len(AsciiLow)}
    \cup {SubSeq(AsciiHigh, i, i) : i \in 1..Len(AsciiHigh)}

\* c.charCodeAt(0)
CodeUnit ==
    [c \in AsciiChars |->
        IF \E i \in 1..Len(AsciiLow) : SubSeq(AsciiLow, i, i) = c
        THEN 31 + (CHOOSE i \in 1..Len(AsciiLow) : SubSeq(AsciiLow, i, i) = c)
        ELSE 96 + (CHOOSE i \in 1..Len(AsciiHigh) : SubSeq(AsciiHigh, i, i) = c)]

\* a < b from position i on, the code units before i being equal.
RECURSIVE CodeUnitLessFrom(_, _, _)
CodeUnitLessFrom(a, b, i) ==
    IF i > Len(b) THEN FALSE
    ELSE IF i > Len(a) THEN TRUE
    ELSE IF CodeUnit[SubSeq(a, i, i)] # CodeUnit[SubSeq(b, i, i)]
    THEN CodeUnit[SubSeq(a, i, i)] < CodeUnit[SubSeq(b, i, i)]
    ELSE CodeUnitLessFrom(a, b, i + 1)

\* a < b in the order Array.prototype.sort() uses without a comparator:
\* code unit by code unit, a proper prefix first.
CodeUnitLess(a, b) == CodeUnitLessFrom(a, b, 1)

\* Mutation of Sort: the keys are left in insertion order.
SortOmitted(keys) == keys

\* The place of each key in code-unit order: one more than the number of keys
\* that sort before it (equal keys keep their order).
CodeUnitRank(keys) ==
    [j \in 1..Len(keys) |->
        1 + Cardinality({m \in 1..Len(keys) :
                           \/ CodeUnitLess(keys[m], keys[j])
                           \/ keys[m] = keys[j] /\ m < j})]

SortByCodeUnits(keys) ==
    Once(CodeUnitRank(keys),
         LAMBDA rank : [i \in 1..Len(keys) |->
                          keys[CHOOSE j \in 1..Len(keys) : rank[j] = i]])

\* keys.sort()
Sort(keys) == Once(keys, SortByCodeUnits)

-----------------------------------------------------------------------------
(* JavaScript objects: entries in insertion order *)

EmptyObject == <<>>

\* Object.keys(o)
ObjectKeys(o) == [i \in 1..Len(o) |-> o[i].k]

HasKey(o, key) == \E i \in 1..Len(o) : o[i].k = key

\* o[key]
Get(o, key) ==
    IF HasKey(o, key)
    THEN o[CHOOSE i \in 1..Len(o) : o[i].k = key].v
    ELSE Undefined

\* o[key] = value: an existing key keeps its place, a new key goes last.
Set(o, key, value) ==
    IF HasKey(o, key)
    THEN [i \in 1..Len(o) |-> IF o[i].k = key THEN [k |-> key, v |-> value] ELSE o[i]]
    ELSE Append(o, [k |-> key, v |-> value])

\* { ...a, ...b }: a's keys keep their place and take b's value where b has
\* the key; b's other keys follow in b's order.
SpreadInto(a, b) ==
    [i \in 1..Len(a) |->
        IF HasKey(b, a[i].k) THEN [k |-> a[i].k, v |-> Get(b, a[i].k)] ELSE a[i]]
    \o SelectSeq(b, LAMBDA e : ~HasKey(a, e.k))

\* The mapping an object denotes, insertion order forgotten.
Mapping(o) == {<<o[i].k, o[i].v>> : i \in 1..Len(o)}

-----------------------------------------------------------------------------
(* FlowClient.sign *)

\* keys.map((key) => `${key}${params[key]}`).join(""), from position i on.
RECURSIVE JoinPairsFrom(_, _, _)
JoinPairsFrom(keys, params, i) ==
    IF i > Len(keys) THEN ""
    ELSE keys[i] \o String(Get(params, keys[i])) \o JoinPairsFrom(keys, params, i + 1)

\* Mutation of JoinPairs: the values are left out, only the names are joined.
RECURSIVE JoinPairsNamesOnly(_, _)
JoinPairsNamesOnly(keys, params) ==
    IF keys = <<>> THEN "" ELSE Head(keys) \o JoinPairsNamesOnly(Tail(keys), params)

JoinPairs(keys, params) == JoinPairsFrom(keys, params, 1)

\* const sortedKeys = Object.keys(params).sort();
sortedKeys(params) == Sort(ObjectKeys(params))

\* const toSign = sortedKeys.map((key) => `${key}${params[key]}`).join("");
toSign(params) ==
    Once(params, LAMBDA p : Once(sortedKeys(p), LAMBDA keys : JoinPairs(keys, p)))

\* CryptoJS.HmacSHA256(message, key).toString(CryptoJS.enc.Hex).  The digest is
\* a symbolic term over (key, message): the hash is a collision-free black box.
HmacSHA256Hex(message, key) == "HmacSHA256(" \o key \o "," \o message \o ")"

sign(params, secretKey) == HmacSHA256Hex(toSign(params), secretKey)

-----------------------------------------------------------------------------
(* String.prototype.localeCompare, root collation, on printable ASCII:   *)
(* punctuation before digits before letters; letters compare without     *)
(* case first, and lower case goes before upper case on a tie.            *)

CollationOrder ==
    " _-,;:!?.'\"()[]{}@*/\\&#%^+<=>|~$0123456789abcdefghijklmnopqrstuvwxyz"
UpperCase == "ABCDEFGHIJKLMNOPQRSTUVWXYZ"
LowerCase == "abcdefghijklmnopqrstuvwxyz"

IsUpper(c) == \E i \in 1..Len(UpperCase) : SubSeq(UpperCase, i, i) = c

ToLower(c) ==
    IF IsUpper(c)
    THEN LET i == CHOOSE j \in 1..Len(UpperCase) : SubSeq(UpperCase, j, j) = c
         IN  SubSeq(LowerCase, i, i)
    ELSE c

PrimaryWeight ==
    [c \in AsciiChars |->
        IF \E i \in 1..Len(CollationOrder) : SubSeq(CollationOrder, i, i) = ToLower(c)
        THEN CHOOSE i \in 1..Len(CollationOrder) : SubSeq(CollationOrder, i, i) = ToLower(c)
        ELSE 0]

\* The first position from i on where a and b differ in primary weight
\* decides; a proper prefix goes first.
RECURSIVE PrimaryCompareFrom(_, _, _)
PrimaryCompareFrom(a, b, i) ==
    IF i > Len(a) /\ i > Len(b) THEN 0
    ELSE IF i > Len(a) THEN -1
    ELSE IF i > Len(b) THEN 1
    ELSE IF PrimaryWeight[SubSeq(a, i, i)] < PrimaryWeight[SubSeq(b, i, i)] THEN -1
    ELSE IF PrimaryWeight[SubSeq(a, i, i)] > PrimaryWeight[SubSeq(b, i, i)] THEN 1
    ELSE PrimaryCompareFrom(a, b, i + 1)

\* The first position from i on where a and b differ in case decides.
RECURSIVE CaseCompareFrom(_, _, _)
CaseCompareFrom(a, b, i) ==
    IF i > Len(a) \/ i > Len(b) THEN 0
    ELSE IF IsUpper(SubSeq(a, i, i)) = IsUpper(SubSeq(b, i, i))
    THEN CaseCompareFrom(a, b, i + 1)
    ELSE IF IsUpper(SubSeq(b, i, i)) THEN -1 ELSE 1

\* a.localeCompare(b)
localeCompare(a, b) ==
    Once(PrimaryCompareFrom(a, b, 1),
         LAMBDA primary : IF primary # 0 THEN primary ELSE CaseCompareFrom(a, b, 1))

\* The place of each entry in localeCompare order of the keys (entries whose
\* keys compare equal keep their order).
LocaleRank(entries) ==
    [n \in 1..Len(entries) |->
        1 + Cardinality({m \in 1..Len(entries) :
                           \/ localeCompare(entries[m].k, entries[n].k) < 0
                           \/ /\ localeCompare(entries[m].k, entries[n].k) = 0
                              /\ m < n})]

\* The entries in localeCompare order of their keys, each value as a string.
SortByLocale(entries) ==
    Once(LocaleRank(entries),
         LAMBDA rank : [i \in 1..Len(entries) |->
                          LET j == CHOOSE n \in 1..Len(entries) : rank[n] = i
                          IN  [k |-> entries[j].k, v |-> String(entries[j].v)]])

\* Object.entries(signedParams).sort(([a], [b]) => a.localeCompare(b))
\*     .map(([key, value]) => [key, String(value)])
sortedEntries(signedParams) == Once(signedParams, SortByLocale)

-----------------------------------------------------------------------------
(* getFlowConfig and the FlowClient constructor *)

NoConfig == [apiKey |-> "", secretKey |-> "", baseUrl |-> ""]

\* if (!apiKey || !secretKey || !baseUrl) throw new Error(...)
ConfigMissing(e) ==
    \/ ~Truthy(e.FLOW_API_KEY)
    \/ ~Truthy(e.FLOW_SECRET_KEY)
    \/ ~Truthy(e.FLOW_BASE_URL)

\* The value getFlowConfig returns when it does not throw.
getFlowConfig(e) ==
    [apiKey |-> e.FLOW_API_KEY.s,
     secretKey |-> e.FLOW_SECRET_KEY.s,
     baseUrl |-> e.FLOW_BASE_URL.s]

\* let flowClientInstance: FlowClient | null = null;  id 0 stands for null.
Null == [id |-> 0, config |-> NoConfig]

\* new FlowClient(config), the n-th object the constructor makes.
FlowClient(n, config) == [id |-> n, config |-> config]

-----------------------------------------------------------------------------
(* Errors *)

NoError == [name |-> "none", message |-> "", code |-> Undefined]

\* new Error(message): also the shape of TypeError and SyntaxError.
Error(name, message) == [name |-> name, message |-> message, code |-> Undefined]

\* new FlowApiError(message, code): super(message) stores String(message).
FlowApiError(message, code) ==
    [name |-> "FlowApiError", message |-> String(message), code |-> code]

\* error instanceof Error
IsError(error) == error.name \in {"Error", "TypeError", "SyntaxError", "FlowApiError"}

ConfigErrorMessage ==
    "Flow API configuration is missing. Please set FLOW_API_KEY, FLOW_SECRET_KEY, and FLOW_BASE_URL environment variables."

-----------------------------------------------------------------------------
(* FlowClient.makeRequest: building the signed request *)

\* const paramsWithApiKey = { apiKey: this.config.apiKey, ...params };
paramsWithApiKey(config, params) ==
    SpreadInto(<<[k |-> "apiKey", v |-> Str(config.apiKey)]>>, params)

\* Mutation of signInput: the bare parameters are signed, the API key is not.
signInputWithoutApiKey(config, params) == params

\* The argument of this.sign(...) at line 93.
signInput(config, params) == paramsWithApiKey(config, params)

\* const signedParams = { ...paramsWithApiKey, s: signature };
signedParams(config, params) ==
    Set(paramsWithApiKey(config, params), "s",
        Str(sign(signInput(config, params), config.secretKey)))

NoBodyEntries == <<>>

\* fetch(`${url}?${queryString}`, { method: "GET", headers: {...} })
GetCall(config, endpoint, params) ==
    [method |-> "GET",
     url |-> config.baseUrl \o endpoint,
     query |-> sortedEntries(signedParams(config, params)),
     body |-> NoBodyEntries,
     contentType |-> "application/json"]

\* fetch(url, { method: "POST", headers: {...}, body: formData.toString() })
PostCall(config, endpoint, params) ==
    [method |-> "POST",
     url |-> config.baseUrl \o endpoint,
     query |-> NoBodyEntries,
     body |-> sortedEntries(signedParams(config, params)),
     contentType |-> "application/x-www-form-urlencoded"]

\* Mutation of fetchCalls: the GET branch falls through into the POST branch.
fetchCallsFallThrough(config, endpoint, method, params) ==
    IF method = "GET"
    THEN <<GetCall(config, endpoint, params), PostCall(config, endpoint, params)>>
    ELSE <<PostCall(config, endpoint, params)>>

\* The fetch calls the if / else on the method issues, in order.
fetchCalls(config, endpoint, method, params) ==
    IF method = "GET"
    THEN <<GetCall(config, endpoint, params)>>
    ELSE <<PostCall(config, endpoint, params)>>

-----------------------------------------------------------------------------
(* FlowClient.makeRequest: reading the response *)

NoBody == [kind |-> "none", code |-> Undefined, message |-> Undefined, data |-> ""]
NoResponse == [status |-> 0, body |-> NoBody]

\* A body that is not JSON; response.json() rejects with a SyntaxError.
NonJsonBody == [kind |-> "nonjson", code |-> Undefined, message |-> Undefined, data |-> ""]
\* The JSON text null.
JsonNull == [kind |-> "null", code |-> Undefined, message |-> Undefined, data |-> ""]
\* A JSON object; an absent code or message property reads as undefined.
JsonObject(code, message, data) ==
    [kind |-> "object", code |-> code, message |-> message, data |-> data]

\* response.ok
Ok(response) == response.status >= 200 /\ response.status <= 299

SyntaxErrorMessage == "Unexpected token < in JSON at position 0"
NullReadMessage(property) ==
    "Cannot read properties of null (reading '" \o property \o "')"

NoOutcome == [kind |-> "none", data |-> NoBody, error |-> NoError]
Return(data) == [kind |-> "return", data |-> data, error |-> NoError]
Throw(error) == [kind |-> "throw", data |-> NoBody, error |-> error]

\* await response.json().catch(() => ({ message: "Unknown error", code: response.status }))
errorData(response) ==
    IF response.body.kind = "nonjson"
    THEN JsonObject(Num(response.status), Str("Unknown error"), "")
    ELSE response.body

\* Lines 138-147: what the !response.ok branch throws.
NotOkThrows(response) ==
    LET parsed == errorData(response)
    IN  IF parsed.kind = "null"
        THEN Error("TypeError", NullReadMessage("message"))
        ELSE FlowApiError(
                 OrElse(parsed.message,
                        Str("HTTP error " \o NumberToString(response.status))),
                 OrElse(parsed.code, Num(response.status)))

\* Mutation of OkOutcome: a nonzero code in a 2xx body is not examined.
OkOutcomeIgnoringCode(response) ==
    IF response.body.kind = "nonjson"
    THEN Throw(Error("SyntaxError", SyntaxErrorMessage))
    ELSE Return(response.body)

\* Lines 149-155: const data = await response.json(); the code test; return data.
OkOutcome(response) ==
    LET data == response.body
    IN  IF data.kind = "nonjson"
        THEN Throw(Error("SyntaxError", SyntaxErrorMessage))
        ELSE IF data.kind = "null"
        THEN Throw(Error("TypeError", NullReadMessage("code")))
        ELSE IF Truthy(data.code) /\ data.code # Num(0)
        THEN Throw(FlowApiError(OrElse(data.message, Str("API error")), data.code))
        ELSE Return(data)

\* Mutation of NotOkOutcome: a non-2xx response with a JSON body is returned.
NotOkOutcomeReturning(response) ==
    IF response.body.kind = "object"
    THEN Return(response.body)
    ELSE Throw(NotOkThrows(response))

NotOkOutcome(response) == Throw(NotOkThrows(response))

\* The outcome of the try block once the response has arrived.
TryOutcome(response) ==
    IF ~Ok(response) THEN NotOkOutcome(response) ELSE OkOutcome(response)

\* Mutation of CatchBlock: every error is wrapped as a 500.
CatchBlockWrapsAll(error) ==
    IF IsError(error)
    THEN FlowApiError(Str(error.message), Num(500))
    ELSE FlowApiError(Str("Unknown error occurred"), Num(500))

\* Lines 156-166: what the catch block rethrows.
CatchBlock(error) ==
    IF error.name = "FlowApiError" THEN error
    ELSE IF IsError(error) THEN FlowApiError(Str(error.message), Num(500))
    ELSE FlowApiError(Str("Unknown error occurred"), Num(500))

\* What makeRequest's promise settles with, given the try block's outcome.
Settled(outcome) ==
    IF outcome.kind = "throw" THEN Throw(CatchBlock(outcome.error)) ELSE outcome

-----------------------------------------------------------------------------
(* The operation methods: the params object each hands to makeRequest *)

NoRequest ==
    [name |-> Undefined, email |-> Undefined, externalId |-> Undefined,
     customerId |-> Undefined, url_return |-> Undefined, token |-> Undefined,
     amount |-> Undefined, currency |-> Undefined, subject |-> Undefined,
     commerceOrder |-> Undefined, urlConfirmation |-> Undefined,
     urlReturn |-> Undefined]

createCustomerParams(request) ==
    <<[k |-> "name", v |-> request.name],
      [k |-> "email", v |-> request.email],
      [k |-> "externalId", v |-> request.externalId]>>

registerCustomerParams(request) ==
    <<[k |-> "customerId", v |-> request.customerId],
      [k |-> "url_return", v |-> request.url_return]>>

getRegisterStatusParams(request) ==
    <<[k |-> "token", v |-> request.token]>>

\* The four required parameters of a charge, in the order of the literal.
chargeRequired(request) ==
    <<[k |-> "customerId", v |-> request.customerId],
      [k |-> "amount", v |-> request.amount],
      [k |-> "currency", v |-> request.currency],
      [k |-> "subject", v |-> request.subject]>>

\* The optional parameters of a charge, in the order of the four if statements.
chargeOptional(request) ==
    <<[k |-> "commerceOrder", v |-> request.commerceOrder],
      [k |-> "email", v |-> request.email],
      [k |-> "urlConfirmation", v |-> request.urlConfirmation],
      [k |-> "urlReturn", v |-> request.urlReturn]>>

\* Mutation of chargeCustomerParams: email is copied without the truthiness test.
chargeCustomerParamsWithPlaceholder(request) ==
    chargeRequired(request)
    \o SelectSeq(chargeOptional(request), LAMBDA e : e.k = "email" \/ Truthy(e.v))

\* if (request.x) { params.x = request.x; } for each optional x: the new keys
\* are appended in the order of the if statements.
chargeCustomerParams(request) ==
    chargeRequired(request)
    \o SelectSeq(chargeOptional(request), LAMBDA e : Truthy(e.v))

-----------------------------------------------------------------------------
(* getFlowClient: the lazily constructed singleton *)

\* Mutation of getFlowClient: the null test is missing, every call constructs.
getFlowClientAlwaysConstructs(holder, e, count) ==
    IF ConfigMissing(e)
    THEN [threw |-> TRUE, holder |-> holder, constructed |-> count, returned |-> Null]
    ELSE [threw |-> FALSE,
          holder |-> FlowClient(count + 1, getFlowConfig(e)),
          constructed |-> count + 1,
          returned |-> FlowClient(count + 1, getFlowConfig(e))]

\* Mutation of getFlowClient: the client is constructed before the
\* configuration is validated.
getFlowClientConstructsFirst(holder, e, count) ==
    IF holder # Null
    THEN [threw |-> FALSE, holder |-> holder, constructed |-> count, returned |-> holder]
    ELSE [threw |-> ConfigMissing(e),
          holder |-> FlowClient(count + 1, getFlowConfig(e)),
          constructed |-> count + 1,
          returned |-> FlowClient(count + 1, getFlowConfig(e))]

\* One call of getFlowClient with the holder, process.env and the constructor
\* count as they are: whether it threw, the holder and the count afterwards,
\* and the instance returned.
getFlowClient(holder, e, count) ==
    IF holder # Null
    THEN [threw |-> FALSE, holder |-> holder, constructed |-> count, returned |-> holder]
    ELSE IF ConfigMissing(e)
    THEN [threw |-> TRUE, holder |-> holder, constructed |-> count, returned |-> Null]
    ELSE [threw |-> FALSE,
          holder |-> FlowClient(count + 1, getFlowConfig(e)),
          constructed |-> count + 1,
          returned |-> FlowClient(count + 1, getFlowConfig(e))]

-----------------------------------------------------------------------------
(* Invocations *)

\* One invocation slot.  params, signInput, fetches and thrown record what
\* the invocation passed to makeRequest, passed to sign, handed to fetch and
\* raised inside the try block.
IdleTask ==
    [pc |-> "idle", via |-> "none", op |-> "none", request |-> NoRequest,
     clientId |-> 0, params |-> EmptyObject, signInput |-> EmptyObject,
     fetches |-> <<>>, response |-> NoResponse, thrown |-> NoError,
     outcome |-> NoOutcome, inserted |-> FALSE]

Tasks == 1..MaxTasks

CanStart(i) == tasks[i].pc = "idle"

\* A caller obtains the client with getFlowClient() and calls one operation
\* method, which runs makeRequest up to its first await (the fetch).
StartOperation(i, via, op, request, endpoint, method, params) ==
    LET g == getFlowClient(flowClientInstance, env, constructed)
        config == g.returned.config
    IN  /\ CanStart(i)
        /\ flowClientInstance' = g.holder
        /\ constructed' = g.constructed
        /\ tasks' = [tasks EXCEPT ![i] =
             IF g.threw
             THEN [IdleTask EXCEPT
                     !.pc = "rejected", !.via = via, !.request = request,
                     !.outcome = Throw(Error("Error", ConfigErrorMessage))]
             ELSE [IdleTask EXCEPT
                     !.pc = "awaitFetch", !.via = via, !.op = op,
                     !.request = request, !.clientId = g.returned.id,
                     !.params = params,
                     !.signInput = signInput(config, params),
                     !.fetches = fetchCalls(config, endpoint, method, params)]]
        /\ UNCHANGED <<env, signVars>>

\* The request the trigger handler builds from the created user document.
UserRequest(userId, user) ==
    [NoRequest EXCEPT
       !.name = Str(user.name \o " " \o user.lastName),
       !.email = Str(user.email),
       !.externalId = Str(userId)]

\* The onUserCreated handler up to its await of createCustomer.
OnUserCreated(i, userId, user) ==
    StartOperation(i, "onUserCreated", "createCustomer", UserRequest(userId, user),
                   "/customer/create", "POST",
                   createCustomerParams(UserRequest(userId, user)))

RegisterCustomer(i, request) ==
    StartOperation(i, "caller", "registerCustomer", request,
                   "/customer/register", "POST", registerCustomerParams(request))

GetRegisterStatus(i, request) ==
    StartOperation(i, "caller", "getRegisterStatus", request,
                   "/customer/getRegisterStatus", "GET",
                   getRegisterStatusParams(request))

ChargeCustomer(i, request) ==
    StartOperation(i, "caller", "chargeCustomer", request,
                   "/customer/charge", "POST", chargeCustomerParams(request))

\* response = await fetch(...): the provider answers.
FetchResolves(i, response) ==
    /\ tasks[i].pc = "awaitFetch"
    /\ tasks' = [tasks EXCEPT ![i].pc = "awaitJson", ![i].response = response]
    /\ UNCHANGED <<env, flowClientInstance, constructed, signVars>>

\* await fetch(...) rejects: connection refused, DNS, timeout.
FetchRejects(i, message) ==
    /\ tasks[i].pc = "awaitFetch"
    /\ tasks' = [tasks EXCEPT
                   ![i].pc = "rejected",
                   ![i].thrown = Error("TypeError", message),
                   ![i].outcome = Settled(Throw(Error("TypeError", message)))]
    /\ UNCHANGED <<env, flowClientInstance, constructed, signVars>>

\* await response.json() settles and makeRequest runs to its end; the trigger
\* handler then hands a returned customer to insertFlowCustomer.
JsonSettles(i) ==
    LET try == TryOutcome(tasks[i].response)
        final == Settled(try)
    IN  /\ tasks[i].pc = "awaitJson"
        /\ tasks' = [tasks EXCEPT
                       ![i].pc = IF final.kind = "return" THEN "resolved" ELSE "rejected",
                       ![i].thrown = try.error,
                       ![i].outcome = final,
                       ![i].inserted = (tasks[i].via = "onUserCreated"
                                        /\ final.kind = "return")]
        /\ UNCHANGED <<env, flowClientInstance, constructed, signVars>>

\* The caller has taken the settled result; the slot is free for another
\* invocation.  The singleton holder outlives the invocation.
Release(i) ==
    /\ tasks[i].pc \in {"resolved", "rejected"}
    /\ tasks' = [tasks EXCEPT ![i] = IdleTask]
    /\ UNCHANGED <<env, flowClientInstance, constructed, signVars>>

-----------------------------------------------------------------------------
(* Inputs *)

EnvValues(value) == {Undefined, Str(""), Str(value)}

EnvChoices ==
    {[FLOW_API_KEY |-> a, FLOW_SECRET_KEY |-> b, FLOW_BASE_URL |-> c] :
        a \in EnvValues("flow_api_key"),
        b \in EnvValues("flow_secret_key"),
        c \in EnvValues("https://api.flow.io")}

ValidEnv ==
    [FLOW_API_KEY |-> Str("flow_api_key"),
     FLOW_SECRET_KEY |-> Str("flow_secret_key"),
     FLOW_BASE_URL |-> Str("https://api.flow.io")]

UserIds == {"u123"}
Users == {[name |-> "Jane", lastName |-> "Doe", email |-> "jane@example.com"]}

RegisterRequests ==
    {[NoRequest EXCEPT !.customerId = Str("c1"), !.url_return = Str("https://app/return")]}

StatusRequests == {[NoRequest EXCEPT !.token = Str("tok1")]}

Optional(value) == {Undefined, Str(""), Str(value)}

ChargeRequests ==
    {[NoRequest EXCEPT
        !.customerId = Str("c1"), !.amount = Num(1500),
        !.currency = Str("CLP"), !.subject = Str("order"),
        !.commerceOrder = a, !.email = b, !.urlConfirmation = c, !.urlReturn = d] :
        a \in Optional("o77"), b \in Optional("a@b.com"),
        c \in Optional("https://app/confirm"), d \in Optional("https://app/back")}

\* Charge requests with every optional field omitted, or every one supplied.
CoarseChargeRequests ==
    {r \in ChargeRequests :
        \/ Undefined = r.commerceOrder /\ Undefined = r.email
           /\ Undefined = r.urlConfirmation /\ Undefined = r.urlReturn
        \/ Truthy(r.commerceOrder) /\ Truthy(r.email)
           /\ Truthy(r.urlConfirmation) /\ Truthy(r.urlReturn)}

Statuses == {200, 201, 400, 503}
Codes == {Undefined, Num(0), Num(7), Num(42)}
Messages == {Undefined, Str(""), Str("declined"), Str("bad request")}

Bodies ==
    {NonJsonBody, JsonNull} \cup {JsonObject(c, m, "payload") : c \in Codes, m \in Messages}

Responses == {[status |-> st, body |-> b] : st \in Statuses, b \in Bodies}

CoarseResponses ==
    {[status |-> 200, body |-> JsonObject(Undefined, Undefined, "payload")],
     [status |-> 200, body |-> JsonObject(Num(7), Str("declined"), "payload")],
     [status |-> 400, body |-> JsonObject(Num(42), Str("bad request"), "payload")],
     [status |-> 503, body |-> NonJsonBody]}

NetworkErrors == {"fetch failed", "getaddrinfo ENOTFOUND api.flow.io"}
CoarseNetworkErrors == {"fetch failed"}

-----------------------------------------------------------------------------
(* The signer harness: two parameter objects drawn from bounded sets *)

SignAlphabet == {"1", "2", "b"}
SignKeys == {"a", "b"}
SignNumbers == {Num(2)}

RECURSIVE StringsUpTo(_)
StringsUpTo(len) ==
    IF len = 0 THEN {""}
    ELSE StringsUpTo(len - 1)
         \cup {str \o c : str \in StringsUpTo(len - 1), c \in SignAlphabet}

SignValues == {Str(str) : str \in StringsUpTo(MaxValLen)} \cup SignNumbers

SignEntries == {[k |-> key, v |-> value] : key \in SignKeys, value \in SignValues}

\* Every object over SignKeys, in every insertion order.
SignObjects ==
    UNION {{o \in [1..len -> SignEntries] :
              \A i, j \in 1..len : i # j => o[i].k # o[j].k} :
           len \in 0..Cardinality(SignKeys)}

\* The object createCustomer's makeRequest signs for the trigger's request.
CreateCustomerSignInputs ==
    {signInput(getFlowConfig(ValidEnv), createCustomerParams(UserRequest(id, u))) :
        id \in UserIds, u \in Users}

SignInputs == SignObjects \cup CreateCustomerSignInputs

NotSigned == [sortedKeys |-> <<>>, toSign |-> "", signature |-> ""]

\* What one call of sign computes: the sorted keys and the string to sign it
\* logs, and the signature it returns.
SignCall(params, secretKey) ==
    [sortedKeys |-> sortedKeys(params),
     toSign |-> toSign(params),
     signature |-> sign(params, secretKey)]

\* this.sign(signParamsA) and this.sign(signParamsB) on one client.
Sign ==
    /\ signedA = NotSigned /\ signedB = NotSigned
    /\ signedA' = SignCall(signParamsA, getFlowConfig(env).secretKey)
    /\ signedB' = SignCall(signParamsB, getFlowConfig(env).secretKey)
    /\ UNCHANGED <<procVars, signParamsA, signParamsB>>

-----------------------------------------------------------------------------
(* Specifications *)

ProcInit ==
    /\ flowClientInstance = Null
    /\ constructed = 0
    /\ tasks = [i \in Tasks |-> IdleTask]

SignIdle ==
    /\ signParamsA = EmptyObject /\ signParamsB = EmptyObject
    /\ signedA = NotSigned /\ signedB = NotSigned

Init == env \in EnvChoices /\ ProcInit /\ SignIdle

\* The process: MaxTasks invocations interleave at their awaits.
Next ==
    \E i \in Tasks :
        \/ \E id \in UserIds, u \in Users : OnUserCreated(i, id, u)
        \/ \E r \in RegisterRequests : RegisterCustomer(i, r)
        \/ \E r \in StatusRequests : GetRegisterStatus(i, r)
        \/ \E r \in CoarseChargeRequests : ChargeCustomer(i, r)
        \/ \E r \in CoarseResponses : FetchResolves(i, r)
        \/ \E m \in CoarseNetworkErrors : FetchRejects(i, m)
        \/ JsonSettles(i)
        \/ Release(i)

Spec == Init /\ [][Next]_vars

\* One invocation at a time, every request and every response.
DispatchNext ==
    \/ \E id \in UserIds, u \in Users : OnUserCreated(1, id, u)
    \/ \E r \in RegisterRequests : RegisterCustomer(1, r)
    \/ \E r \in StatusRequests : GetRegisterStatus(1, r)
    \/ \E r \in ChargeRequests : ChargeCustomer(1, r)
    \/ \E r \in Responses : FetchResolves(1, r)
    \/ \E m \in NetworkErrors : FetchRejects(1, m)
    \/ JsonSettles(1)
    \/ Release(1)

DispatchSpec == Init /\ [][DispatchNext]_vars

SignInit ==
    /\ env = ValidEnv
    /\ ProcInit
    /\ signParamsA \in SignInputs
    /\ signParamsB \in SignInputs
    /\ signedA = NotSigned /\ signedB = NotSigned

SignNext == Sign

SignSpec == SignInit /\ [][SignNext]_vars

-----------------------------------------------------------------------------
(* Properties *)

HasSettled(t) == t.pc \in {"resolved", "rejected"}

\* The decimal form of a value as the provider reads it off the wire.
Rendered(v) == IF v.t = "number" THEN ToString(v.n) ELSE v.s

KeySet(o) == {o[i].k : i \in 1..Len(o)}

\* The entries one fetch call carries, in the query string or in the body.
Sent(call) == call.query \o call.body

SentPairs(call) == {<<Sent(call)[n].k, Sent(call)[n].v>> : n \in 1..Len(Sent(call))}

\* C1: every invocation of makeRequest issues exactly one HTTP call, while it
\* is awaiting and once it has settled, whatever the outcome; an invocation
\* that never reached makeRequest issues none.
C1_ExactlyOneHttpCall ==
    \A i \in Tasks :
        /\ tasks[i].op # "none" => Len(tasks[i].fetches) = 1
        /\ tasks[i].op = "none" => Len(tasks[i].fetches) = 0

\* A status poll (GET) that failed at the network level after its one call.
C1_Witness ==
    \E i \in Tasks :
        /\ tasks[i].op = "getRegisterStatus"
        /\ tasks[i].pc = "rejected"
        /\ tasks[i].thrown.name = "TypeError"
        /\ Len(tasks[i].fetches) = 1
        /\ tasks[i].fetches[1].method = "GET"

\* C2 as stated: a non-2xx response never yields a success; with a JSON
\* object body the failure carries the code and the message the body has, with
\* a non-JSON body it carries the HTTP status as its code.
C2_Original ==
    \A i \in Tasks :
        LET t == tasks[i]
            b == t.response.body
            e == t.outcome.error
        IN  (HasSettled(t) /\ t.response # NoResponse /\ ~(t.response.status \in 200..299)) =>
                /\ t.outcome.kind = "throw"
                /\ (b.kind = "object" /\ b.code # Undefined) => e.code = b.code
                /\ (b.kind = "object" /\ b.message # Undefined) => e.message = b.message.s
                /\ b.kind = "nonjson" => e.code = Num(t.response.status)

\* C2 amended: a non-2xx response never yields a success.  With a JSON object
\* body the failure carries the body's code when it is present and nonzero,
\* else the HTTP status, and the body's message when it is present and not
\* empty, else "HTTP error <status>".  With a non-JSON body it carries the
\* HTTP status and "Unknown error".  With the JSON body null it carries 500.
C2_NonOkFailure ==
    \A i \in Tasks :
        LET t == tasks[i]
            st == t.response.status
            b == t.response.body
            e == t.outcome.error
        IN  (HasSettled(t) /\ t.response # NoResponse /\ ~(st \in 200..299)) =>
                /\ t.pc = "rejected"
                /\ t.outcome.kind = "throw"
                /\ e.name = "FlowApiError"
                /\ b.kind = "object" =>
                     /\ e.code = IF b.code \in {Undefined, Num(0)} THEN Num(st) ELSE b.code
                     /\ e.message = IF b.message \in {Undefined, Str("")}
                                    THEN "HTTP error " \o ToString(st)
                                    ELSE b.message.s
                /\ b.kind = "nonjson" => (e.code = Num(st) /\ e.message = "Unknown error")
                /\ b.kind = "null" => e.code = Num(500)

\* A 400 whose JSON body has no code: the failure carries the HTTP status.
C2_Witness ==
    \E i \in Tasks :
        /\ tasks[i].pc = "rejected"
        /\ tasks[i].response.status = 400
        /\ tasks[i].response.body = JsonObject(Undefined, Str("bad request"), "payload")
        /\ tasks[i].outcome.error.code = Num(400)
        /\ tasks[i].outcome.error.message = "bad request"

\* C3 as stated: for a 2xx response with a JSON object body, an absent or zero
\* code returns the body unchanged, and a nonzero code fails with exactly the
\* body's code and the message the body has.
C3_Original ==
    \A i \in Tasks :
        LET t == tasks[i]
            b == t.response.body
            e == t.outcome.error
        IN  (HasSettled(t) /\ t.response.status \in 200..299 /\ b.kind = "object") =>
                /\ b.code \in {Undefined, Num(0)} =>
                     (t.outcome.kind = "return" /\ t.outcome.data = b)
                /\ b.code \notin {Undefined, Num(0)} =>
                     /\ t.outcome.kind = "throw"
                     /\ e.code = b.code
                     /\ b.message # Undefined => e.message = b.message.s

\* C3 amended: for a 2xx response with a JSON object body, an absent or zero
\* code returns the body unchanged; a nonzero code fails with the body's code,
\* and with the body's message when it is present and not empty, else with
\* "API error".  A 2xx response whose JSON body is null fails with code 500.
C3_OkBodyMapping ==
    \A i \in Tasks :
        LET t == tasks[i]
            b == t.response.body
            e == t.outcome.error
        IN  (HasSettled(t) /\ t.response.status \in 200..299) =>
                /\ (b.kind = "object" /\ b.code \in {Undefined, Num(0)}) =>
                     /\ t.pc = "resolved"
                     /\ t.outcome.kind = "return"
                     /\ t.outcome.data = b
                /\ (b.kind = "object" /\ b.code \notin {Undefined, Num(0)}) =>
                     /\ t.pc = "rejected"
                     /\ t.outcome.kind = "throw"
                     /\ e.name = "FlowApiError"
                     /\ e.code = b.code
                     /\ e.message = IF b.message \in {Undefined, Str("")}
                                    THEN "API error"
                                    ELSE b.message.s
                /\ b.kind = "null" =>
                     (t.outcome.kind = "throw" /\ e.code = Num(500))

\* A 200 with {code: 7, message: "declined"} has failed with 7 / "declined".
C3_Witness ==
    \E i \in Tasks :
        /\ tasks[i].pc = "rejected"
        /\ tasks[i].response.status = 200
        /\ tasks[i].response.body = JsonObject(Num(7), Str("declined"), "payload")
        /\ tasks[i].outcome.error = FlowApiError(Str("declined"), Num(7))

\* C4: every failure of an operation reaches the caller as a FlowApiError with
\* a message and a numeric code; an error that is no FlowApiError (a network
\* failure) comes out with code 500 and its own message; a FlowApiError raised
\* inside makeRequest comes out unchanged, with the code of the response body.
C4_NormalizedFailure ==
    \A i \in Tasks :
        LET t == tasks[i]
            b == t.response.body
            e == t.outcome.error
        IN  (t.pc = "rejected" /\ t.op # "none") =>
                /\ t.outcome.kind = "throw"
                /\ e.name = "FlowApiError"
                /\ e.code.t = "number"
                /\ t.thrown # NoError
                /\ t.thrown.name = "FlowApiError" => e = t.thrown
                /\ t.thrown.name # "FlowApiError" =>
                     (e.code = Num(500) /\ e.message = t.thrown.message)
                /\ t.response = NoResponse =>
                     (t.thrown.name = "TypeError" /\ e.code = Num(500))
                /\ (b.kind = "object" /\ b.code \notin {Undefined, Num(0)}) =>
                     (t.thrown.name = "FlowApiError" /\ e.code = b.code)

\* A network failure has reached the caller as FlowApiError("fetch failed", 500).
C4_Witness ==
    \E i \in Tasks :
        /\ tasks[i].pc = "rejected"
        /\ tasks[i].response = NoResponse
        /\ tasks[i].thrown = Error("TypeError", "fetch failed")
        /\ tasks[i].outcome.error = FlowApiError(Str("fetch failed"), Num(500))

\* C5: the signer's input is the operation's parameters plus apiKey bound to
\* the configured API key, and has no s; the one request sent carries exactly
\* the signed pairs, each value in its string form, plus s, and s is the
\* signature of that signer input.
C5_SignedBeforeS ==
    \A i \in Tasks :
        LET t == tasks[i]
        IN  t.op # "none" =>
                /\ Mapping(t.signInput) =
                       Mapping(t.params) \cup {<<"apiKey", env.FLOW_API_KEY>>}
                /\ "s" \notin KeySet(t.signInput)
                /\ Len(t.fetches) = 1
                /\ Len(Sent(t.fetches[1])) = Len(t.signInput) + 1
                /\ SentPairs(t.fetches[1]) =
                       {<<p[1], Rendered(p[2])>> : p \in Mapping(t.signInput)}
                       \cup {<<"s", sign(t.signInput, env.FLOW_SECRET_KEY.s)>>}

\* A charge with an email is awaiting its response; the request sent has s.
C5_Witness ==
    \E i \in Tasks :
        /\ tasks[i].op = "chargeCustomer"
        /\ tasks[i].pc = "awaitFetch"
        /\ tasks[i].request.email = Str("a@b.com")
        /\ <<"email", "a@b.com">> \in SentPairs(tasks[i].fetches[1])
        /\ <<"amount", "1500">> \in SentPairs(tasks[i].fetches[1])
        /\ \E p \in SentPairs(tasks[i].fetches[1]) : p[1] = "s"

ChargeRequiredNames == {"customerId", "amount", "currency", "subject"}
ChargeOptionalNames == {"commerceOrder", "email", "urlConfirmation", "urlReturn"}

\* An optional field the caller supplied: present and not empty.
Supplied(request, name) == request[name].t = "string" /\ request[name].s # ""

\* C8: for every charge, the signed names are the four required names, apiKey
\* and the optional names the caller supplied; the transmitted names are those
\* plus s; an omitted or empty optional field has no entry at all.
C8_ChargeParameterNames ==
    \A i \in Tasks :
        LET t == tasks[i]
            supplied == {name \in ChargeOptionalNames : Supplied(t.request, name)}
        IN  t.op = "chargeCustomer" =>
                /\ KeySet(t.signInput) = ChargeRequiredNames \cup {"apiKey"} \cup supplied
                /\ Len(t.signInput) = Cardinality(KeySet(t.signInput))
                /\ {p[1] : p \in SentPairs(t.fetches[1])} =
                       ChargeRequiredNames \cup {"apiKey", "s"} \cup supplied
                /\ Len(Sent(t.fetches[1])) = Cardinality(SentPairs(t.fetches[1]))
                /\ \A p \in SentPairs(t.fetches[1]) :
                       p[1] \in ChargeOptionalNames => p[2] \notin {"", "undefined", "null"}

\* A charge with no optional field but an empty email has been sent with
\* exactly the four required names, apiKey and s.
C8_Witness ==
    \E i \in Tasks :
        /\ tasks[i].op = "chargeCustomer"
        /\ tasks[i].request.commerceOrder = Undefined
        /\ tasks[i].request.email = Str("")
        /\ tasks[i].request.urlConfirmation = Undefined
        /\ tasks[i].request.urlReturn = Undefined
        /\ {p[1] : p \in SentPairs(tasks[i].fetches[1])} =
               {"customerId", "amount", "currency", "subject", "apiKey", "s"}

EnvNames == {"FLOW_API_KEY", "FLOW_SECRET_KEY", "FLOW_BASE_URL"}

AnyAbsent == \E name \in EnvNames : env[name].t = "undefined"

\* C9: while any of the API key, secret key or base URL is absent, no client
\* is constructed, the holder stays empty, every invocation made has failed
\* with an Error and none has issued an HTTP call.
C9_ConfigurationFailFast ==
    AnyAbsent =>
        /\ flowClientInstance = Null
        /\ constructed = 0
        /\ \A i \in Tasks :
               /\ tasks[i].fetches = <<>>
               /\ tasks[i].clientId = 0
               /\ tasks[i].pc \in {"idle", "rejected"}
               /\ tasks[i].pc = "rejected" =>
                    /\ tasks[i].op = "none"
                    /\ tasks[i].outcome.kind = "throw"
                    /\ tasks[i].outcome.error.name = "Error"

\* Only the base URL is absent, and a trigger invocation has failed.
C9_Witness ==
    /\ env.FLOW_BASE_URL = Undefined
    /\ env.FLOW_API_KEY # Undefined /\ env.FLOW_SECRET_KEY # Undefined
    /\ \E i \in Tasks : tasks[i].pc = "rejected" /\ tasks[i].via = "onUserCreated"

\* C10: at most one client is ever constructed; once the holder is set it is
\* the first instance made from the configuration, and every invocation,
\* suspended or settled, holds that same instance.
C10_SingletonClient ==
    /\ constructed <= 1
    /\ flowClientInstance # Null =>
         (constructed = 1 /\ flowClientInstance = FlowClient(1, getFlowConfig(env)))
    /\ \A i \in Tasks :
           tasks[i].clientId # 0 =>
               (flowClientInstance # Null /\ tasks[i].clientId = flowClientInstance.id)

\* Two invocations are suspended on their HTTP responses with the one client.
C10_Witness ==
    /\ constructed = 1
    /\ \E i, j \in Tasks :
           /\ i # j
           /\ tasks[i].pc = "awaitFetch" /\ tasks[j].pc = "awaitFetch"
           /\ tasks[i].clientId = 1 /\ tasks[j].clientId = 1

HasSigned == signedA # NotSigned /\ signedB # NotSigned

\* The name -> string-form mapping of a parameter object.
RenderedMapping(o) == {<<o[i].k, Rendered(o[i].v)>> : i \in 1..Len(o)}

\* C6 as stated: two parameter sets that differ never yield the same
\* string-to-sign.
C6_Original ==
    (HasSigned /\ RenderedMapping(signParamsA) # RenderedMapping(signParamsB)) =>
        signedA.toSign # signedB.toSign

\* B is A with the string form of one value changed, or with one parameter
\* added, or with one parameter removed.
SingleChange(a, b) ==
    \/ /\ KeySet(a) = KeySet(b)
       /\ Cardinality(RenderedMapping(a) \ RenderedMapping(b)) = 1
    \/ /\ RenderedMapping(a) \subseteq RenderedMapping(b)
       /\ Cardinality(KeySet(b) \ KeySet(a)) = 1
    \/ /\ RenderedMapping(b) \subseteq RenderedMapping(a)
       /\ Cardinality(KeySet(a) \ KeySet(b)) = 1

\* C6 amended: changing the string form of one parameter's value, adding one
\* parameter or removing one parameter changes the string-to-sign and the
\* signature.
C6_SingleChangeSensitivity ==
    (HasSigned /\ SingleChange(signParamsA, signParamsB)) =>
        /\ signedA.toSign # signedB.toSign
        /\ signedA.signature # signedB.signature

\* {a: "1"} and {a: "1", b: "2"} have been signed: "a1" and "a1b2".
C6_Witness ==
    /\ HasSigned
    /\ signParamsA = <<[k |-> "a", v |-> Str("1")]>>
    /\ signParamsB = <<[k |-> "a", v |-> Str("1")], [k |-> "b", v |-> Str("2")]>>
    /\ signedA.toSign = "a1"
    /\ signedB.toSign = "a1b2"

\* The concatenation name, value, name, value ... over the keys as given.
RECURSIVE Concatenation(_, _)
Concatenation(keys, o) ==
    IF keys = <<>> THEN ""
    ELSE Head(keys)
         \o Rendered(o[CHOOSE i \in 1..Len(o) : o[i].k = Head(keys)].v)
         \o Concatenation(Tail(keys), o)

\* C7: the keys sign sorts are the object's names in strictly ascending
\* code-unit order and the string-to-sign is name, value over them; two
\* objects with the same mapping, whatever their insertion order, get the same
\* string-to-sign and signature; {b: "2", a: "1"} gives "a1b2"; create-customer
\* signs apiKey, email, externalId, name in that order.
C7_CanonicalOrder ==
    HasSigned =>
        /\ {signedA.sortedKeys[n] : n \in 1..Len(signedA.sortedKeys)} = KeySet(signParamsA)
        /\ Len(signedA.sortedKeys) = Len(signParamsA)
        /\ \A n \in 1..(Len(signedA.sortedKeys) - 1) :
               CodeUnitLess(signedA.sortedKeys[n], signedA.sortedKeys[n + 1])
        /\ signedA.toSign = Concatenation(signedA.sortedKeys, signParamsA)
        /\ Mapping(signParamsA) = Mapping(signParamsB) =>
               (signedA.toSign = signedB.toSign /\ signedA.signature = signedB.signature)
        /\ Mapping(signParamsA) = {<<"a", Str("1")>>, <<"b", Str("2")>>} =>
               signedA.toSign = "a1b2"
        /\ signParamsA \in CreateCustomerSignInputs =>
               /\ signedA.sortedKeys = <<"apiKey", "email", "externalId", "name">>
               /\ signedA.toSign =
                      "apiKeyflow_api_keyemailjane@example.comexternalIdu123nameJane Doe"

\* {b: "2", a: "1"} and {a: "1", b: "2"} have both been signed as "a1b2".
C7_Witness ==
    /\ HasSigned
    /\ signParamsA = <<[k |-> "b", v |-> Str("2")], [k |-> "a", v |-> Str("1")]>>
    /\ signParamsB = <<[k |-> "a", v |-> Str("1")], [k |-> "b", v |-> Str("2")]>>
    /\ signedA.toSign = "a1b2"
    /\ signedB.toSign = "a1b2"

=============================================================================
